---- MODULE Spec2Model ----
(***************************************************************************)
(* A model of the SEC filing extraction program:                           *)
(*   - SECFilingParser.parse_form4      (src/extract_trade_data.py 27-165) *)
(*   - SECFilingParser.parse_13g_13d    (src/extract_trade_data.py 167-321)*)
(*   - download_and_extract_trades      (src/extract_trade_data.py 324-429)*)
(*                                                                         *)
(* Python values are modelled as records: None, Str(s) for a str whose     *)
(* characters are the elements of the sequence s, Float(n) for a float.    *)
(* A character is a one-letter string; a fixed phrase of a filing (a label *)
(* such as "Sole Voting Power") is one symbol of the sequence, which       *)
(* behaves as a block of characters that are neither digits nor commas.    *)
(***************************************************************************)
EXTENDS Integers, Sequences, FiniteSets, TLC

VARIABLES
    pc,             \* position of the running function
    content,        \* the document text handed to a parser (response.text)
    parsed,         \* the record a parser returned
    raised,         \* whether an exception left the parser
    result,         \* parse_13g_13d: the record being filled in, row by row
    rowq,           \* parse_13g_13d: the table rows not yet scanned
    df,             \* download_and_extract_trades: the table of filings
    df0,            \* the table as pd.read_csv returned it (history)
    idx,            \* download_and_extract_trades: index of the current row
    errors,         \* download_and_extract_trades: the recorded error messages
    request_delay,  \* download_and_extract_trades: the request_delay argument
    calls,          \* history of the external calls made (time.sleep, requests.get)
    output          \* what the run wrote and reported at completion

vars == <<pc, content, parsed, raised, result, rowq, df, df0, idx, errors,
          request_delay, calls, output>>

-----------------------------------------------------------------------------
(* Python values *)

None == [none |-> TRUE]
Str(s) == [str |-> s]
Float(n) == [float |-> n]

IsStr(v) == "str" \in DOMAIN v
IsFloat(v) == "float" \in DOMAIN v

\* Python truthiness of None, a str and a float (bool(v)).
Truthy(v) ==
    IF v = None THEN FALSE
    ELSE IF IsStr(v) THEN v.str # <<>>
    ELSE v.float # 0

\* An element lookup that found nothing (Element.find returning None).
Absent == [absent |-> TRUE]

Digits == {"0", "1", "2", "3", "4", "5", "6", "7", "8", "9"}

DigitVal(c) ==
    CASE c = "0" -> 0 [] c = "1" -> 1 [] c = "2" -> 2 [] c = "3" -> 3
      [] c = "4" -> 4 [] c = "5" -> 5 [] c = "6" -> 6 [] c = "7" -> 7
      [] c = "8" -> 8 [] c = "9" -> 9

\* s without the elements that equal c (str.replace(c, '') for one character).
RECURSIVE Remove(_, _)
Remove(s, c) ==
    IF s = <<>> THEN <<>>
    ELSE IF Head(s) = c THEN Remove(Tail(s), c)
    ELSE <<Head(s)>> \o Remove(Tail(s), c)

RECURSIVE DecimalValue(_)
DecimalValue(s) ==
    IF s = <<>> THEN 0
    ELSE 10 * DecimalValue(SubSeq(s, 1, Len(s) - 1)) + DigitVal(s[Len(s)])

\* float(s) for the texts drawn here (digits, commas, letters): a non-empty
\* run of digits converts, anything else raises ValueError.
FloatParses(s) == s # <<>> /\ \A i \in 1..Len(s) : s[i] \in Digits
FloatOf(s) == DecimalValue(s)

-----------------------------------------------------------------------------
(* parse_form4 *)

form4_cols == {"Transaction_Code", "Transaction_Date", "Shares_Acquired",
               "Shares_Disposed", "Price_Per_Share", "Security_Name",
               "Transaction_Type", "Total_Value", "Shares_Owned_Following"}

EmptyForm4Result == [k \in form4_cols |-> None]

EnumCodes == {"P", "S", "A", "D", "F", "I", "M", "C", "E", "H", "O", "X",
              "G", "W", "L", "Z"}

code_map ==
    [c \in EnumCodes |->
        CASE c = "P" -> "Purchase"
          [] c = "S" -> "Sale"
          [] c = "A" -> "Grant/Award"
          [] c = "D" -> "Disposition"
          [] c = "F" -> "Payment of exercise price"
          [] c = "I" -> "Discretionary transaction"
          [] c = "M" -> "Exercise or conversion"
          [] c = "C" -> "Conversion"
          [] c = "E" -> "Expiration of short derivative position"
          [] c = "H" -> "Expiration of long derivative position"
          [] c = "O" -> "Transfer Out"
          [] c = "X" -> "Exercise of out-of-the-money derivative"
          [] c = "G" -> "Bona fide gift"
          [] c = "W" -> "Acquisition or disposition by will"
          [] c = "L" -> "Small acquisition"
          [] c = "Z" -> "Deposit into or withdrawal from voting trust"]

\* Whether the text of a code element is a key of code_map.
IsMapped(text) ==
    /\ IsStr(text)
    /\ Len(text.str) = 1
    /\ text.str[1] \in EnumCodes

CodeMapGet_default_none(text) ==
    IF IsMapped(text) THEN Str(<<code_map[text.str[1]]>>) ELSE None

\* code_map.get(code, code)
CodeMapGet(text) ==
    IF IsMapped(text) THEN Str(<<code_map[text.str[1]]>>) ELSE text

\* x in ['P', 'A', ...] for a code text x and a list of one-letter codes.
CodeIn(text, codes) ==
    /\ IsStr(text)
    /\ Len(text.str) = 1
    /\ text.str[1] \in codes

AcquireCodes == {"P", "A", "M", "C", "I", "L"}
DisposeCodes == {"S", "D", "F", "O"}

\* elem.find('.//value') and the text of what it found, None when it is
\* missing: the `x_val is not None and x_val.text` tests of the code.
ValueText(elem) ==
    IF elem = Absent THEN None
    ELSE IF elem.value = Absent THEN None
    ELSE elem.value.text

\* Lines 64-87: the transaction code and its mapped type.
CodeFields(trans, r) ==
    IF trans.transactionCode = Absent THEN r
    ELSE [r EXCEPT !["Transaction_Code"] = trans.transactionCode.text,
                   !["Transaction_Type"] = CodeMapGet(trans.transactionCode.text)]

\* Lines 89-94.
DateField(trans, r) ==
    IF Truthy(ValueText(trans.transactionDate))
    THEN [r EXCEPT !["Transaction_Date"] = ValueText(trans.transactionDate)]
    ELSE r

SharesFields_no_elif(trans, r) ==
    LET text == ValueText(trans.transactionShares)
        ad   == trans.transactionAcquiredDisposedCode
        byInd ==
            IF ad # Absent /\ ad.value # Absent
            THEN IF ad.value.text = Str(<<"A">>)
                 THEN [r EXCEPT !["Shares_Acquired"] = Float(FloatOf(Remove(text.str, ",")))]
                 ELSE IF ad.value.text = Str(<<"D">>)
                 THEN [r EXCEPT !["Shares_Disposed"] = Float(FloatOf(Remove(text.str, ",")))]
                 ELSE r
            ELSE r
    IN  IF ~Truthy(text) THEN r
        ELSE IF ~FloatParses(Remove(text.str, ",")) THEN r
        ELSE IF Truthy(r["Transaction_Code"])
             THEN IF CodeIn(r["Transaction_Code"], AcquireCodes)
                  THEN [byInd EXCEPT !["Shares_Acquired"] = Float(FloatOf(Remove(text.str, ",")))]
                  ELSE IF CodeIn(r["Transaction_Code"], DisposeCodes)
                  THEN [byInd EXCEPT !["Shares_Disposed"] = Float(FloatOf(Remove(text.str, ",")))]
                  ELSE byInd
             ELSE byInd

\* Lines 96-120: the share count and its direction.  float() raising
\* ValueError is caught at line 119 and leaves both fields as they were.
SharesFields(trans, r) ==
    LET text == ValueText(trans.transactionShares)
        ad   == trans.transactionAcquiredDisposedCode
    IN  IF ~Truthy(text) THEN r
        ELSE IF ~FloatParses(Remove(text.str, ",")) THEN r
        ELSE LET shares == Float(FloatOf(Remove(text.str, ",")))
             IN  IF ad # Absent
                 THEN IF ad.value # Absent
                      THEN IF ad.value.text = Str(<<"A">>)
                           THEN [r EXCEPT !["Shares_Acquired"] = shares]
                           ELSE IF ad.value.text = Str(<<"D">>)
                           THEN [r EXCEPT !["Shares_Disposed"] = shares]
                           ELSE r
                      ELSE r
                 ELSE IF Truthy(r["Transaction_Code"])
                 THEN IF CodeIn(r["Transaction_Code"], AcquireCodes)
                      THEN [r EXCEPT !["Shares_Acquired"] = shares]
                      ELSE IF CodeIn(r["Transaction_Code"], DisposeCodes)
                      THEN [r EXCEPT !["Shares_Disposed"] = shares]
                      ELSE r
                 ELSE r

\* Lines 122-127.
PriceField(trans, r) ==
    IF Truthy(ValueText(trans.transactionPricePerShare))
    THEN [r EXCEPT !["Price_Per_Share"] = ValueText(trans.transactionPricePerShare)]
    ELSE r

\* Lines 129-136.
OwnedFollowingField(trans, r) ==
    LET post == trans.postTransactionAmounts
        text == IF post = Absent THEN None
                ELSE ValueText(post.sharesOwnedFollowingTransaction)
    IN  IF Truthy(text) THEN [r EXCEPT !["Shares_Owned_Following"] = text] ELSE r

\* Lines 138-143.
SecurityField(trans, r) ==
    IF Truthy(ValueText(trans.securityTitle))
    THEN [r EXCEPT !["Security_Name"] = ValueText(trans.securityTitle)]
    ELSE r

\* Lines 145-157: the total value.  The tests are Python truth tests, so a
\* share count of 0.0 is as false as None; float(price) raising ValueError
\* is caught and leaves Total_Value as it was.
TotalValueField(r) ==
    IF Truthy(r["Shares_Acquired"]) /\ Truthy(r["Price_Per_Share"])
    THEN IF FloatParses(r["Price_Per_Share"].str)
         THEN [r EXCEPT !["Total_Value"] =
                  Float(r["Shares_Acquired"].float * FloatOf(r["Price_Per_Share"].str))]
         ELSE r
    ELSE IF Truthy(r["Shares_Disposed"]) /\ Truthy(r["Price_Per_Share"])
    THEN IF FloatParses(r["Price_Per_Share"].str)
         THEN [r EXCEPT !["Total_Value"] =
                  Float(r["Shares_Disposed"].float * FloatOf(r["Price_Per_Share"].str))]
         ELSE r
    ELSE r

\* Lines 60-157: the fields of the first transaction.
TransactionFields(trans) ==
    TotalValueField(
      SecurityField(trans,
        OwnedFollowingField(trans,
          PriceField(trans,
            SharesFields(trans,
              DateField(trans,
                CodeFields(trans, EmptyForm4Result)))))))

\* Line 55: ET.fromstring on content[xml_start + 5:xml_end].strip().  An
\* empty slice (the end marker before the end of the start marker) is not
\* well-formed; otherwise the document's tree field is what the slice parses
\* to, ParseError included.
ParseErrorTree == [malformed |-> TRUE]

FromString(c) ==
    IF c.xml_end < c.xml_start + 5 THEN ParseErrorTree ELSE c.tree

MarkersMissing_and(c) == c.xml_start = -1 /\ c.xml_end = -1

\* Line 49.
MarkersMissing(c) == c.xml_start = -1 \/ c.xml_end = -1

Form4TryBody_last(c) ==
    IF MarkersMissing(c) THEN [exc |-> "none", result |-> EmptyForm4Result]
    ELSE LET root == FromString(c)
         IN  IF root = ParseErrorTree
             THEN [exc |-> "ParseError", result |-> EmptyForm4Result]
             ELSE IF root.transactions # <<>>
             THEN [exc |-> "none",
                   result |-> TransactionFields(
                                  root.transactions[Len(root.transactions)])]
             ELSE [exc |-> "none", result |-> EmptyForm4Result]

\* Lines 44-157: the body of the try statement; exc is the exception that
\* leaves it ("none" when it completes or returns).
Form4TryBody(c) ==
    IF MarkersMissing(c) THEN [exc |-> "none", result |-> EmptyForm4Result]
    ELSE LET root == FromString(c)
         IN  IF root = ParseErrorTree
             THEN [exc |-> "ParseError", result |-> EmptyForm4Result]
             ELSE IF root.transactions # <<>>
             THEN [exc |-> "none", result |-> TransactionFields(root.transactions[1])]
             ELSE [exc |-> "none", result |-> EmptyForm4Result]

\* Lines 159-163: ParseError is passed over, any other Exception is printed.
\* Both handlers swallow the exception.
Form4Handles(exc) == exc \in {"ParseError", "Exception"}

\* parse_form4(content): the record returned and whether an exception escaped.
parse_form4(c) ==
    LET body == Form4TryBody(c)
    IN  [result |-> body.result,
         raised |-> body.exc # "none" /\ ~Form4Handles(body.exc)]

-----------------------------------------------------------------------------
(* Documents *)

\* A document is one text seen two ways.  parse_form4 sees the positions of
\* the '<XML>' and '</XML>' markers (str.find, -1 when missing) and the tree
\* the enclosed fragment parses to.  parse_13g_13d sees the positions of the
\* '<TEXT>' and '</TEXT>' markers, the markup between them (items) and the
\* text around them (envelope).
Document(xs, xe, tree, ts, te, envelope, items) ==
    [xml_start |-> xs, xml_end |-> xe, tree |-> tree,
     text_start |-> ts, text_end |-> te, envelope |-> envelope, items |-> items]

Transaction(code, date, shares, ad, price, post, title) ==
    [transactionCode |-> code, transactionDate |-> date,
     transactionShares |-> shares, transactionAcquiredDisposedCode |-> ad,
     transactionPricePerShare |-> price, postTransactionAmounts |-> post,
     securityTitle |-> title]

WithValue(t) == [value |-> [text |-> t]]

\* The shapes an element with a <value> child takes: missing, without the
\* child, with an empty child, with a child holding one of the texts.
ValueElems(texts) ==
    {Absent, [value |-> Absent], WithValue(None)}
        \cup {WithValue(Str(t)) : t \in texts}

MaxTrans == 2

CodeElems ==
    {Absent, [text |-> None]}
        \cup {[text |-> Str(<<c>>)] : c \in EnumCodes \cup {"Q"}}

ShareTexts == {<<"0">>, <<"5">>, <<"1", ",", "0">>, <<"x">>}
IndicatorTexts == {<<"A">>, <<"D">>, <<"X">>}
PriceTexts == {<<"0">>, <<"2">>, <<"1", ",", "0">>, <<"x">>}

\* The date, the post-transaction amount and the security title of a drawn
\* transaction are all missing, all empty or all filled in.
OtherElems ==
    {[date |-> Absent, post |-> Absent, title |-> Absent],
     [date |-> WithValue(None),
      post |-> [sharesOwnedFollowingTransaction |-> WithValue(None)],
      title |-> [value |-> Absent]],
     [date |-> WithValue(Str(<<"2024-01-02">>)),
      post |-> [sharesOwnedFollowingTransaction |-> WithValue(Str(<<"9", "0">>))],
      title |-> WithValue(Str(<<"Common Stock">>))]}

FirstTransactions ==
    {Transaction(code, o.date, shares, ad, price, o.post, o.title) :
        code \in CodeElems, shares \in ValueElems(ShareTexts),
        ad \in ValueElems(IndicatorTexts), price \in ValueElems(PriceTexts),
        o \in OtherElems}

SaleTransaction ==
    Transaction([text |-> Str(<<"S">>)], WithValue(Str(<<"2024-03-04">>)),
                WithValue(Str(<<"7">>)), WithValue(Str(<<"D">>)),
                WithValue(Str(<<"3">>)),
                [sharesOwnedFollowingTransaction |-> WithValue(Str(<<"1">>))],
                WithValue(Str(<<"Preferred Stock">>)))

BareTransaction ==
    Transaction(Absent, Absent, Absent, Absent, Absent, Absent, Absent)

LaterTransactions == {SaleTransaction, BareTransaction}

RECURSIVE SeqsUpTo(_, _)
SeqsUpTo(S, n) ==
    IF n = 0 THEN {<<>>}
    ELSE LET shorter == SeqsUpTo(S, n - 1)
         IN  shorter \cup {Append(s, x) : s \in shorter, x \in S}

XmlOnly(xs, xe, tree) == Document(xs, xe, tree, -1, -1, <<>>, <<>>)

\* Well-delimited, well-formed Form 4 documents with every shape of first
\* transaction, followed by up to MaxTrans - 1 further transactions.
Form4Documents ==
    {XmlOnly(0, 10, [transactions |-> <<first>> \o rest]) :
        first \in FirstTransactions,
        rest \in SeqsUpTo(LaterTransactions, MaxTrans - 1)}

\* Every combination of marker positions around a malformed fragment, a
\* fragment without transactions and a fragment with one.
EnvelopeDocuments ==
    {XmlOnly(xs, xe, tree) :
        xs \in {-1, 0, 20}, xe \in {-1, 10},
        tree \in {ParseErrorTree, [transactions |-> <<>>],
                  [transactions |-> <<SaleTransaction>>]}}

Form4Inputs == Form4Documents \cup EnvelopeDocuments

-----------------------------------------------------------------------------
(* Specification of parse_form4 applied to one document *)

NoTable == [columns |-> {}, rows |-> <<>>]

InitForm4 ==
    /\ pc = "parse_form4"
    /\ content \in Form4Inputs
    /\ parsed = None
    /\ raised = FALSE
    /\ result = None
    /\ rowq = <<>>
    /\ df = NoTable
    /\ df0 = NoTable
    /\ idx = 0
    /\ errors = <<>>
    /\ request_delay = 0
    /\ calls = <<>>
    /\ output = None

ParseForm4 ==
    /\ pc = "parse_form4"
    /\ parsed' = parse_form4(content).result
    /\ raised' = parse_form4(content).raised
    /\ pc' = "returned"
    /\ UNCHANGED <<content, result, rowq, df, df0, idx, errors, request_delay,
                   calls, output>>

NextForm4 == ParseForm4

SpecForm4 == InitForm4 /\ [][NextForm4]_vars

-----------------------------------------------------------------------------
(* Properties of parse_form4 (checked under SpecForm4) *)

\* The first transaction element of a well-delimited, well-formed document,
\* Absent when there is none.
FirstTransactionOf(c) ==
    IF \/ c.xml_start = -1
       \/ c.xml_end = -1
       \/ c.xml_end < c.xml_start + 5
       \/ c.tree = ParseErrorTree
    THEN Absent
    ELSE IF c.tree.transactions = <<>> THEN Absent
    ELSE c.tree.transactions[1]

\* C2: in every record parse_form4 returns, Shares_Acquired and
\* Shares_Disposed are never both populated, whatever the acquired/disposed
\* indicator and the transaction code are.
C2_SharesExclusive ==
    pc = "returned" =>
        ~(parsed["Shares_Acquired"] # None /\ parsed["Shares_Disposed"] # None)

\* C2 witness: a document whose indicator says acquired while its code is a
\* disposition code; only Shares_Acquired is populated.
C2_Witness ==
    /\ pc = "returned"
    /\ FirstTransactionOf(content) # Absent
    /\ FirstTransactionOf(content).transactionCode = [text |-> Str(<<"S">>)]
    /\ FirstTransactionOf(content).transactionAcquiredDisposedCode = WithValue(Str(<<"A">>))
    /\ parsed["Shares_Acquired"] = Float(5)
    /\ parsed["Shares_Disposed"] = None

\* Whether a returned field holds a parsed number / a text that float() accepts.
IsNumber(v) == v # None /\ IsFloat(v)
PriceIsNumber(v) == v # None /\ IsStr(v) /\ FloatParses(v.str)

\* C3 as claimed: Total_Value is populated if and only if Price_Per_Share
\* parses as a number and exactly one of Shares_Acquired / Shares_Disposed
\* holds a parsed number, a share count of zero included; when populated it
\* equals that share count times the price.
C3_TotalValueIff ==
    pc = "returned" =>
        LET acq == parsed["Shares_Acquired"]
            dis == parsed["Shares_Disposed"]
            price == parsed["Price_Per_Share"]
            one == (IsNumber(acq) /\ ~IsNumber(dis)) \/ (~IsNumber(acq) /\ IsNumber(dis))
            count == IF IsNumber(acq) THEN acq.float ELSE dis.float
        IN  /\ (parsed["Total_Value"] # None) <=> (PriceIsNumber(price) /\ one)
            /\ parsed["Total_Value"] # None =>
                   parsed["Total_Value"] = Float(count * FloatOf(price.str))

\* C4: parse_form4 never raises, and a document that lacks the '<XML>' or the
\* '</XML>' marker, or whose fragment between them is not well-formed, yields
\* a record whose nine fields are all None.
C4_NoRaiseAllAbsent ==
    pc = "returned" =>
        /\ ~raised
        /\ DOMAIN parsed = form4_cols
        /\ (\/ content.xml_start = -1
            \/ content.xml_end = -1
            \/ content.xml_end < content.xml_start + 5
            \/ content.tree = ParseErrorTree)
               => \A k \in form4_cols : parsed[k] = None

\* C4 witness: the start marker is missing around a fragment that holds a
\* transaction, and the record returned is all None.
C4_Witness ==
    /\ pc = "returned"
    /\ content.xml_start = -1
    /\ content.xml_end # -1
    /\ content.tree = [transactions |-> <<SaleTransaction>>]
    /\ \A k \in form4_cols : parsed[k] = None
    /\ ~raised

\* C5: for every code of the fixed enumeration Transaction_Type is the mapped
\* label, for any other code it is the code itself, and Transaction_Type is
\* populated only when Transaction_Code is.
C5_TransactionType ==
    pc = "returned" =>
        LET trans == FirstTransactionOf(content)
        IN  /\ parsed["Transaction_Type"] # None => parsed["Transaction_Code"] # None
            /\ (trans # Absent /\ trans.transactionCode # Absent) =>
                 LET text == trans.transactionCode.text
                 IN  /\ parsed["Transaction_Code"] = text
                     /\ \A c \in EnumCodes :
                            text = Str(<<c>>) =>
                                parsed["Transaction_Type"] = Str(<<code_map[c]>>)
                     /\ (text # None /\ \A c \in EnumCodes : text # Str(<<c>>)) =>
                            parsed["Transaction_Type"] = text
            /\ (trans # Absent /\ trans.transactionCode = [text |-> Str(<<"P">>)]) =>
                   parsed["Transaction_Type"] = Str(<<"Purchase">>)
            /\ (trans # Absent /\ trans.transactionCode = [text |-> Str(<<"Z">>)]) =>
                   parsed["Transaction_Type"] =
                       Str(<<"Deposit into or withdrawal from voting trust">>)

\* C5 witness: a code outside the enumeration is passed through verbatim.
C5_Witness ==
    /\ pc = "returned"
    /\ FirstTransactionOf(content) # Absent
    /\ FirstTransactionOf(content).transactionCode = [text |-> Str(<<"Q">>)]
    /\ parsed["Transaction_Code"] = Str(<<"Q">>)
    /\ parsed["Transaction_Type"] = Str(<<"Q">>)

\* The share count of a transaction element when its text parses, None
\* otherwise.
ParsedShares(trans) ==
    LET text == ValueText(trans.transactionShares)
    IN  IF Truthy(text) /\ FloatParses(Remove(text.str, ","))
        THEN Float(FloatOf(Remove(text.str, ",")))
        ELSE None

\* The text of the acquired/disposed indicator, None when no indicator value
\* is available: the element is missing, has no <value> child, or the child
\* is empty.
IndicatorValue(trans) ==
    LET text == ValueText(trans.transactionAcquiredDisposedCode)
    IN  IF Truthy(text) THEN text ELSE None

\* C11 as claimed: when the share count of the first transaction parses, an
\* indicator value 'A' populates Shares_Acquired only and 'D' populates
\* Shares_Disposed only; whenever no indicator value is available the
\* direction follows Transaction_Code: P, A, M, C, I, L populate
\* Shares_Acquired only, S, D, F, O populate Shares_Disposed only, and any
\* other or missing code populates neither.
C11_DirectionByIndicatorElseCode ==
    (pc = "returned" /\ FirstTransactionOf(content) # Absent) =>
        LET trans == FirstTransactionOf(content)
            shares == ParsedShares(trans)
            ind == IndicatorValue(trans)
            code == parsed["Transaction_Code"]
            acquired == /\ parsed["Shares_Acquired"] = shares
                        /\ parsed["Shares_Disposed"] = None
            disposed == /\ parsed["Shares_Acquired"] = None
                        /\ parsed["Shares_Disposed"] = shares
            neither  == /\ parsed["Shares_Acquired"] = None
                        /\ parsed["Shares_Disposed"] = None
        IN  shares # None =>
              /\ ind = Str(<<"A">>) => acquired
              /\ ind = Str(<<"D">>) => disposed
              /\ ind = None =>
                    IF CodeIn(code, AcquireCodes) THEN acquired
                    ELSE IF CodeIn(code, DisposeCodes) THEN disposed
                    ELSE neither

\* The document c with every transaction element after the first removed.
FirstOnly(c) ==
    [c EXCEPT !.tree = [transactions |-> <<c.tree.transactions[1]>>]]

\* C13: for a document with several transaction elements the record returned
\* is the record of the same document cut down to its first transaction
\* element: no field depends on the second or a later element, and a field
\* the first element lacks stays None.
C13_FirstTransactionOnly ==
    (pc = "returned" /\ FirstTransactionOf(content) # Absent) =>
        LET trans == FirstTransactionOf(content)
        IN  /\ parsed = parse_form4(FirstOnly(content)).result
            /\ trans.transactionCode = Absent =>
                   parsed["Transaction_Code"] = None
            /\ trans.transactionDate = Absent =>
                   parsed["Transaction_Date"] = None
            /\ trans.transactionShares = Absent =>
                   /\ parsed["Shares_Acquired"] = None
                   /\ parsed["Shares_Disposed"] = None
            /\ trans.transactionPricePerShare = Absent =>
                   parsed["Price_Per_Share"] = None
            /\ trans.postTransactionAmounts = Absent =>
                   parsed["Shares_Owned_Following"] = None
            /\ trans.securityTitle = Absent =>
                   parsed["Security_Name"] = None

\* C13 witness: the first transaction element is empty and the second is a
\* complete sale; every field of the record is None.
C13_Witness ==
    /\ pc = "returned"
    /\ content.xml_start = 0
    /\ content.tree # ParseErrorTree
    /\ content.tree.transactions = <<BareTransaction, SaleTransaction>>
    /\ \A k \in form4_cols : parsed[k] = None

-----------------------------------------------------------------------------
(* parse_13g_13d: text helpers *)

SoleVotingLabel == "Sole Voting Power"
SharedVotingLabel == "Shared Voting Power"
SoleDispositiveLabel == "Sole Dispositive Power"
SharedDispositiveLabel == "Shared Dispositive Power"
AggregateLabel == "Aggregate Amount Beneficially Owned"
AggregateLabelUpper == "AGGREGATE AMOUNT BENEFICIALLY OWNED"
PercentLabel == "Percent of Class"
PercentLabelUpper == "PERCENT OF CLASS"
ReportingPersonLabel == "Type of Reporting Person"
CusipToken == "CUSIP"
TitleMarker == "(Title of Class of Securities)"

Phrases == {SoleVotingLabel, SharedVotingLabel, SoleDispositiveLabel,
            SharedDispositiveLabel, AggregateLabel, AggregateLabelUpper,
            PercentLabel, PercentLabelUpper, ReportingPersonLabel, CusipToken,
            TitleMarker, "Common Stock"}

UpperLetters == {"I", "N", "A", "C", "O"}
LowerLetters == {"x"}
WhiteSpace == {" ", "\n"}
NumChars == Digits \cup {","}

\* \w of the re module; a phrase begins and ends with a letter, the title
\* marker with a parenthesis.
IsWordChar(c) ==
    c \in Digits \cup UpperLetters \cup LowerLetters \cup (Phrases \ {TitleMarker})

Min(S) == CHOOSE x \in S : \A y \in S : x <= y
Max(S) == CHOOSE x \in S : \A y \in S : x >= y

\* str.strip()
RECURSIVE Strip(_)
Strip(s) ==
    IF s = <<>> THEN s
    ELSE IF Head(s) \in WhiteSpace THEN Strip(Tail(s))
    ELSE IF s[Len(s)] \in WhiteSpace THEN Strip(SubSeq(s, 1, Len(s) - 1))
    ELSE s

\* value_text.replace('-0-', '0')
RECURSIVE ReplaceDashZero(_)
ReplaceDashZero(s) ==
    IF Len(s) < 3 THEN s
    ELSE IF SubSeq(s, 1, 3) = <<"-", "0", "-">>
    THEN <<"0">> \o ReplaceDashZero(SubSeq(s, 4, Len(s)))
    ELSE <<Head(s)>> \o ReplaceDashZero(Tail(s))

\* The end of the longest run of symbols of S that starts at position i
\* (i - 1 when s[i] is not in S).
RunEnd(s, i, S) ==
    Max({j \in (i - 1)..Len(s) : \A k \in i..j : s[k] \in S})

\* re.search(r'([\d,]+)', s): None, or the group of the leftmost match, the
\* first run of digits and commas.
SearchNumber(s) ==
    LET starts == {i \in 1..Len(s) : s[i] \in NumChars}
    IN  IF starts = {} THEN None
        ELSE Str(SubSeq(s, Min(starts), RunEnd(s, Min(starts), NumChars)))

\* The match of r'(\d+\.?\d*)\s*%' that starts at position i: None or its group.
PercentAt(s, i) ==
    IF i > Len(s) \/ i < 1 THEN None
    ELSE IF s[i] \notin Digits THEN None
    ELSE LET e1 == RunEnd(s, i, Digits)
             dot == e1 < Len(s) /\ s[e1 + 1] = "."
             e2 == IF dot THEN RunEnd(s, e1 + 2, Digits) ELSE e1
             e3 == RunEnd(s, e2 + 1, WhiteSpace)
         IN  IF e3 < Len(s) /\ s[e3 + 1] = "%" THEN Str(SubSeq(s, i, e2)) ELSE None

\* re.search(r'(\d+\.?\d*)\s*%', s)
SearchPercent(s) ==
    LET starts == {i \in 1..Len(s) : PercentAt(s, i) # None}
    IN  IF starts = {} THEN None ELSE PercentAt(s, Min(starts))

\* The match of r'\b([A-Z]{2,3})\b' that starts at position i.
TypeAt(s, i) ==
    LET boundaryBefore == i = 1 \/ ~IsWordChar(s[i - 1])
        upper(k) == k <= Len(s) /\ s[k] \in UpperLetters
        boundaryAfter(k) == k = Len(s) \/ ~IsWordChar(s[k + 1])
    IN  IF ~boundaryBefore THEN None
        ELSE IF upper(i) /\ upper(i + 1) /\ upper(i + 2) /\ boundaryAfter(i + 2)
        THEN Str(SubSeq(s, i, i + 2))
        ELSE IF upper(i) /\ upper(i + 1) /\ boundaryAfter(i + 1)
        THEN Str(SubSeq(s, i, i + 1))
        ELSE None

\* re.search(r'\b([A-Z]{2,3})\b', s)
SearchType(s) ==
    LET starts == {i \in 1..Len(s) : TypeAt(s, i) # None}
    IN  IF starts = {} THEN None ELSE TypeAt(s, Min(starts))

\* re.search(r'^(\d+)\.', s) and int() of its group; -1 when it does not match.
RowNumber(s) ==
    IF s = <<>> THEN -1
    ELSE IF s[1] \notin Digits THEN -1
    ELSE LET e == RunEnd(s, 1, Digits)
         IN  IF e < Len(s) /\ s[e + 1] = "." THEN DecimalValue(SubSeq(s, 1, e))
             ELSE -1

\* str.join of the texts of a list of cells.
RECURSIVE Join(_, _)
Join(sep, cells) ==
    IF cells = <<>> THEN <<>>
    ELSE IF Len(cells) = 1 THEN cells[1]
    ELSE cells[1] \o sep \o Join(sep, Tail(cells))

\* `label in text` for a label phrase.
Contains(text, label) == \E i \in 1..Len(text) : text[i] = label

\* The positions of a label in a text under re.IGNORECASE.
LabelPositions(text, labels) == {i \in 1..Len(text) : text[i] \in labels}

-----------------------------------------------------------------------------
(* parse_13g_13d *)

form13_cols == {"Shares_Owned", "Percent_of_Class", "Sole_Voting_Power",
                "Shared_Voting_Power", "Sole_Dispositive_Power",
                "Shared_Dispositive_Power", "CUSIP", "Security_Name",
                "Type_of_Reporting_Person"}

EmptyForm13Result == [k \in form13_cols |-> None]

\* Lines 192-197: the markup between '<TEXT>' and '</TEXT>' when both
\* markers are found, the whole document otherwise.
HtmlContent(c) ==
    IF c.text_start # -1 /\ c.text_end # -1
    THEN IF c.text_end < c.text_start + 6 THEN <<>> ELSE c.items
    ELSE c.envelope \o c.items

\* An item of the markup is a table row (its cells' texts) or text outside
\* any table.
TableRow(cells) == [kind |-> "tr", cells |-> cells]
FreeText(text) == [kind |-> "text", text |-> text]

ItemText(item) ==
    IF item.kind = "tr" THEN Join(<<"\n">>, item.cells) ELSE item.text

RECURSIVE GetText(_)
\* Line 202: soup.get_text(), the texts of the items one per line.
GetText(items) ==
    IF items = <<>> THEN <<>>
    ELSE ItemText(Head(items)) \o <<"\n">> \o GetText(Tail(items))

RECURSIVE TableRows(_)
\* Lines 218-223: the rows of every table, in document order.
TableRows(items) ==
    IF items = <<>> THEN <<>>
    ELSE IF Head(items).kind = "tr"
    THEN <<Head(items).cells>> \o TableRows(Tail(items))
    ELSE TableRows(Tail(items))

\* The match of r'CUSIP[^\d]*(\d{6,9})' that starts at the token at p.
CusipAt(text, p) ==
    LET ds == {i \in (p + 1)..Len(text) : text[i] \in Digits}
    IN  IF ds = {} THEN None
        ELSE LET d == Min(ds)
                 e == RunEnd(text, d, Digits)
             IN  IF e - d + 1 >= 6
                 THEN Str(SubSeq(text, d, IF e > d + 8 THEN d + 8 ELSE e))
                 ELSE None

\* Lines 206-209.
CusipField(text, r) ==
    LET ps == {p \in LabelPositions(text, {CusipToken}) : CusipAt(text, p) # None}
    IN  IF ps = {} THEN r
        ELSE [r EXCEPT !["CUSIP"] = CusipAt(text, Min(ps))]

\* The match of r'\(Title of Class of Securities\)\s*([^\n(]+)' that starts
\* at the marker at p, stripped: the rest of the next non-blank line up to a
\* parenthesis, or blanks the \s* gives back when nothing else follows.
TitleAt(text, p) ==
    LET q == RunEnd(text, p + 1, WhiteSpace) + 1
        stop == {"\n", "(", TitleMarker}
        name(k) == k <= Len(text) /\ text[k] \notin stop
        blanks == {j \in (p + 1)..(q - 1) : text[j] = " "}
    IN  IF name(q)
        THEN Str(Strip(SubSeq(text, q,
                 Max({j \in q..Len(text) : \A k \in q..j : name(k)}))))
        ELSE IF blanks # {} THEN Str(<<>>)
        ELSE None

\* Lines 212-215.
SecurityNameField(text, r) ==
    LET ps == {p \in LabelPositions(text, {TitleMarker}) : TitleAt(text, p) # None}
    IN  IF ps = {} THEN r
        ELSE [r EXCEPT !["Security_Name"] = TitleAt(text, Min(ps))]

\* Lines 241-245 (and 249-252, 257-260, 263-266, 270-273, 277-280): the
\* count of the row's last cell.
CountField(cells, r, field) ==
    LET value_text == Strip(cells[Len(cells)])
        num_match == SearchNumber(ReplaceDashZero(value_text))
    IN  IF num_match # None
        THEN [r EXCEPT ![field] = Str(Remove(num_match.str, ","))]
        ELSE r

\* Lines 284-288 (and 292-295).
PercentField(cells, r) ==
    LET percent_match == SearchPercent(Strip(cells[Len(cells)]))
    IN  IF percent_match # None
        THEN [r EXCEPT !["Percent_of_Class"] = percent_match]
        ELSE r

\* Lines 299-303.
ReportingPersonField(cells, r) ==
    LET type_match == SearchType(Strip(cells[Len(cells)]))
    IN  IF type_match # None
        THEN [r EXCEPT !["Type_of_Reporting_Person"] = type_match]
        ELSE r

ProcessRow_aggregate_first(cells, r) ==
    IF Len(cells) < 2 THEN r
    ELSE LET row_num == RowNumber(Strip(cells[1]))
             row_text == Join(<<" ">>, cells)
         IN  IF row_num = 9 /\ Contains(row_text, AggregateLabel)
             THEN CountField(cells, r, "Shares_Owned")
             ELSE IF row_num = 9 /\ Contains(row_text, SoleDispositiveLabel)
             THEN CountField(cells, r, "Sole_Dispositive_Power")
             ELSE r

\* Lines 224-303: one iteration of the loop over the rows of a table.
ProcessRow(cells, r) ==
    IF Len(cells) < 2 THEN r
    ELSE LET row_num == RowNumber(Strip(cells[1]))
             row_text == Join(<<" ">>, cells)
         IN  IF row_num = -1 THEN r
             ELSE IF row_num = 7 /\ Contains(row_text, SoleVotingLabel)
             THEN CountField(cells, r, "Sole_Voting_Power")
             ELSE IF row_num = 8 /\ Contains(row_text, SharedVotingLabel)
             THEN CountField(cells, r, "Shared_Voting_Power")
             ELSE IF row_num = 9
             THEN IF Contains(row_text, SoleDispositiveLabel)
                  THEN CountField(cells, r, "Sole_Dispositive_Power")
                  ELSE IF Contains(row_text, AggregateLabel)
                  THEN CountField(cells, r, "Shares_Owned")
                  ELSE r
             ELSE IF row_num = 10 /\ Contains(row_text, SharedDispositiveLabel)
             THEN CountField(cells, r, "Shared_Dispositive_Power")
             ELSE IF row_num = 11 /\ Contains(row_text, AggregateLabel)
             THEN CountField(cells, r, "Shares_Owned")
             ELSE IF row_num = 11 /\ Contains(row_text, PercentLabel)
             THEN PercentField(cells, r)
             ELSE IF row_num = 13 /\ Contains(row_text, PercentLabel)
             THEN PercentField(cells, r)
             ELSE IF row_num = 12 /\ Contains(row_text, ReportingPersonLabel)
             THEN ReportingPersonField(cells, r)
             ELSE r

RECURSIVE ScanRows(_, _)
\* Lines 220-303: the loops over the tables and their rows.
ScanRows(rows, r) ==
    IF rows = <<>> THEN r
    ELSE ScanRows(Tail(rows), ProcessRow(Head(rows), r))

\* re.search(r'Aggregate Amount Beneficially Owned[^\d]*([\d,]+)', text,
\* re.IGNORECASE): the run of digits and commas at the first digit after the
\* first label or, when no digit follows, the last comma after it.
SearchAggregate(text) ==
    LET ps == LabelPositions(text, {AggregateLabel, AggregateLabelUpper})
    IN  IF ps = {} THEN None
        ELSE LET p == Min(ps)
                 ds == {i \in (p + 1)..Len(text) : text[i] \in Digits}
                 cs == {i \in (p + 1)..Len(text) : text[i] = ","}
             IN  IF ds # {}
                 THEN Str(SubSeq(text, Min(ds), RunEnd(text, Min(ds), NumChars)))
                 ELSE IF cs # {} THEN Str(<<",">>)
                 ELSE None

\* re.search(r'Percent of Class[^\d]*(\d+\.?\d*)\s*%', text, re.IGNORECASE):
\* the percentage at the first digit after the first label that has one.
SearchPercentOfClass(text) ==
    LET firstDigit(p) == Min({i \in (p + 1)..Len(text) : text[i] \in Digits}
                             \cup {Len(text) + 1})
        ps == {p \in LabelPositions(text, {PercentLabel, PercentLabelUpper}) :
                  PercentAt(text, firstDigit(p)) # None}
    IN  IF ps = {} THEN None
        ELSE PercentAt(text, firstDigit(Min(ps)))

\* Lines 305-316: the whole-document fallback for the two fields.
Fallback(text, r) ==
    LET agg_match == SearchAggregate(text)
        r1 == IF ~Truthy(r["Shares_Owned"]) /\ agg_match # None
              THEN [r EXCEPT !["Shares_Owned"] = Str(Remove(agg_match.str, ","))]
              ELSE r
        percent_match == SearchPercentOfClass(text)
    IN  IF ~Truthy(r1["Percent_of_Class"]) /\ percent_match # None
        THEN [r1 EXCEPT !["Percent_of_Class"] = percent_match]
        ELSE r1

\* Lines 204-215: the two searches of the flattened text.
TextFields(text) ==
    SecurityNameField(text, CusipField(text, EmptyForm13Result))

\* parse_13g_13d(content).  Nothing in the try statement raises on a
\* document that the markup parser accepts, and it accepts any text.
parse_13g_13d(c) ==
    LET html_content == HtmlContent(c)
        text == GetText(html_content)
    IN  Fallback(text, ScanRows(TableRows(html_content), TextFields(text)))

-----------------------------------------------------------------------------
(* Specification of parse_13g_13d applied to one document, row by row *)

MaxCellLen == 3
MaxRows == 2

HtmlOnly(ts, te, envelope, items) ==
    Document(-1, -1, ParseErrorTree, ts, te, envelope, items)

CellAlphabet == {"1", ",", "-", "0", "x"}

\* The numbered rows whose last cell is a count, by first cell and label.
CountRowKinds ==
    {<<<<"7", ".">>, SoleVotingLabel>>,
     <<<<"8", ".">>, SharedVotingLabel>>,
     <<<<"9", ".">>, SoleDispositiveLabel>>,
     <<<<"9", ".">>, AggregateLabel>>,
     <<<<"1", "0", ".">>, SharedDispositiveLabel>>,
     <<<<"1", "1", ".">>, AggregateLabel>>}

\* One table row of each count kind, its last cell every text of up to
\* MaxCellLen characters.
CountDocuments ==
    {HtmlOnly(-1, -1, <<>>, <<TableRow(<<k[1], <<k[2]>>, v>>)>>) :
        k \in CountRowKinds, v \in SeqsUpTo(CellAlphabet, MaxCellLen)}

RowSamples ==
    {<<first, labels, value>> :
        first \in {<<"9", ".">>, <<"1", "1", ".">>, <<"x">>},
        labels \in {<<>>, <<SoleDispositiveLabel>>, <<AggregateLabel>>,
                    <<SoleDispositiveLabel, " ", AggregateLabel>>,
                    <<PercentLabel>>},
        value \in {<<"1", ",", "2", " ", "(", "1", ")">>,
                   <<"6", ".", "1", "%">>}}
    \cup {<<<<"1", "2", ".">>, <<ReportingPersonLabel>>, <<"I", "N">>>>,
          <<<<"1", "3", ".">>, <<PercentLabel>>, <<"7", " ", "%">>>>,
          <<<<"9", ".", " ", SoleDispositiveLabel, " ", "5">>>>,
          <<<<"9", ".">>, <<AggregateLabelUpper>>, <<"x">>>>}

RECURSIVE AsTableRows(_)
AsTableRows(rows) ==
    IF rows = <<>> THEN <<>>
    ELSE <<TableRow(Head(rows))>> \o AsTableRows(Tail(rows))

\* Tables of one to MaxRows sample rows.
TableDocuments ==
    {HtmlOnly(-1, -1, <<>>, AsTableRows(rows)) :
        rows \in SeqsUpTo(RowSamples, MaxRows) \ {<<>>}}

TextSamples ==
    {<<>>,
     <<FreeText(<<CusipToken, " ", "N", "O", ".", " ",
                  "1", "2", "3", "4", "5", "6", "7", "8", "9">>)>>,
     <<FreeText(<<"Common Stock", "\n", TitleMarker, "\n", "x", " ", "x">>)>>,
     <<FreeText(<<AggregateLabelUpper, ":", " ", "5", ",", "0", "0">>)>>,
     <<FreeText(<<PercentLabelUpper, " ", "7", ".", "9", "%">>)>>,
     <<TableRow(<<<<"9", ".">>, <<AggregateLabel>>, <<"x">>>>),
       TableRow(<<<<"1", "0", ".">>, <<SharedDispositiveLabel>>, <<"-", "0", "-">>>>)>>}

\* Text outside tables, with and without the '<TEXT>' markers around it.
TextDocuments ==
    {HtmlOnly(ts, te, envelope, items) :
        ts \in {-1, 0}, te \in {-1, 3, 50},
        envelope \in TextSamples, items \in TextSamples}

Form13Inputs == CountDocuments \cup TableDocuments \cup TextDocuments

Init13 ==
    /\ pc = "parse_13g_13d"
    /\ content \in Form13Inputs
    /\ parsed = None
    /\ raised = FALSE
    /\ result = EmptyForm13Result
    /\ rowq = <<>>
    /\ df = NoTable
    /\ df0 = NoTable
    /\ idx = 0
    /\ errors = <<>>
    /\ request_delay = 0
    /\ calls = <<>>
    /\ output = None

\* Lines 190-218: select the markup, flatten it, search it for the CUSIP and
\* the security name, and find the tables.
Begin13 ==
    /\ pc = "parse_13g_13d"
    /\ result' = TextFields(GetText(HtmlContent(content)))
    /\ rowq' = TableRows(HtmlContent(content))
    /\ pc' = "scan_rows"
    /\ UNCHANGED <<content, parsed, raised, df, df0, idx, errors, request_delay,
                   calls, output>>

\* Lines 223-303: the next row of the tables.
ScanRow ==
    /\ pc = "scan_rows"
    /\ rowq # <<>>
    /\ result' = ProcessRow(Head(rowq), result)
    /\ rowq' = Tail(rowq)
    /\ UNCHANGED <<pc, content, parsed, raised, df, df0, idx, errors,
                   request_delay, calls, output>>

\* Lines 305-321: the fallback searches and the return.
Finish13 ==
    /\ pc = "scan_rows"
    /\ rowq = <<>>
    /\ result' = Fallback(GetText(HtmlContent(content)), result)
    /\ parsed' = result'
    /\ pc' = "returned"
    /\ UNCHANGED <<content, raised, rowq, df, df0, idx, errors, request_delay,
                   calls, output>>

Next13 == Begin13 \/ ScanRow \/ Finish13

Spec13 == Init13 /\ [][Next13]_vars

\* The row-by-row run returns what parse_13g_13d computes in one piece.
StepwiseAgrees == pc = "returned" => parsed = parse_13g_13d(content)

-----------------------------------------------------------------------------
(* Properties of parse_13g_13d (checked under Spec13) *)

\* Whether a label occurs in some cell of a row.
RowHasLabel(cells, label) ==
    \E i \in 1..Len(cells) : \E j \in 1..Len(cells[i]) : cells[i][j] = label

\* The count the row's last cell normalizes to, None when the search of the
\* cell finds nothing.
LastCellCount(cells) ==
    LET num_match == SearchNumber(ReplaceDashZero(Strip(cells[Len(cells)])))
    IN  IF num_match = None THEN None ELSE Str(Remove(num_match.str, ","))

\* The record r with the field set to the count when there is one.
Populated(r, field, count) ==
    IF count = None THEN r ELSE [r EXCEPT ![field] = count]

\* C6: the step that scans a table row numbered 9 routes it by the label in
\* the row alone: with 'Sole Dispositive Power' the last cell's number goes to
\* Sole_Dispositive_Power and Shares_Owned is left alone; otherwise with
\* 'Aggregate Amount Beneficially Owned' it goes to Shares_Owned and
\* Sole_Dispositive_Power is left alone; with neither label no field changes.
C6_Row9Routing ==
    [][(/\ pc = "scan_rows"
        /\ rowq # <<>>
        /\ Len(Head(rowq)) >= 2
        /\ RowNumber(Strip(Head(rowq)[1])) = 9)
       => LET cells == Head(rowq)
              count == LastCellCount(cells)
          IN  IF RowHasLabel(cells, SoleDispositiveLabel)
              THEN result' = Populated(result, "Sole_Dispositive_Power", count)
              ELSE IF RowHasLabel(cells, AggregateLabel)
              THEN result' = Populated(result, "Shares_Owned", count)
              ELSE result' = result]_vars

\* C6 witness: a row "9." labelled 'Aggregate Amount Beneficially Owned'
\* whose last cell reads "1,2 (1)" has been scanned: Shares_Owned is "12" and
\* Sole_Dispositive_Power is still None.
C6_Witness ==
    /\ pc = "scan_rows"
    /\ rowq = <<>>
    /\ content.items =
           <<TableRow(<<<<"9", ".">>, <<AggregateLabel>>,
                        <<"1", ",", "2", " ", "(", "1", ")">>>>)>>
    /\ result["Shares_Owned"] = Str(<<"1", "2">>)
    /\ result["Sole_Dispositive_Power"] = None

\* The field a count row feeds, "" for any other row.
CountTarget(cells) ==
    LET n == IF Len(cells) >= 2 THEN RowNumber(Strip(cells[1])) ELSE -1
    IN  IF n = 7 /\ RowHasLabel(cells, SoleVotingLabel) THEN "Sole_Voting_Power"
        ELSE IF n = 8 /\ RowHasLabel(cells, SharedVotingLabel) THEN "Shared_Voting_Power"
        ELSE IF n = 9 /\ RowHasLabel(cells, SoleDispositiveLabel) THEN "Sole_Dispositive_Power"
        ELSE IF n = 9 /\ RowHasLabel(cells, AggregateLabel) THEN "Shares_Owned"
        ELSE IF n = 10 /\ RowHasLabel(cells, SharedDispositiveLabel) THEN "Shared_Dispositive_Power"
        ELSE IF n = 11 /\ RowHasLabel(cells, AggregateLabel) THEN "Shares_Owned"
        ELSE ""

HasDigit(s) == \E i \in 1..Len(s) : s[i] \in Digits

\* C8 as claimed: scanning a voting, dispositive or ownership row, the count
\* is the first run of digits and commas of the last cell, '-0-' read as '0',
\* with the commas stripped; the field stays as it was (None) whenever the
\* cell holds no digit, and a '-0-' cell gives "0".
C8_CountNormalization ==
    [][(/\ pc = "scan_rows"
        /\ rowq # <<>>
        /\ CountTarget(Head(rowq)) # "")
       => LET cells == Head(rowq)
              field == CountTarget(cells)
              cell == Strip(cells[Len(cells)])
          IN  /\ ~HasDigit(cell) => result'[field] = result[field]
              /\ HasDigit(cell) => result'[field] = LastCellCount(cells)
              /\ cell = <<"-", "0", "-">> => result'[field] = Str(<<"0">>)]_vars

\* What the whole-document search for a field yields: the count with its
\* commas stripped, the percentage, or None when the search does not match.
FallbackValue(text, field) ==
    IF field = "Shares_Owned"
    THEN LET agg_match == SearchAggregate(text)
         IN  IF agg_match = None THEN None
             ELSE Str(Remove(agg_match.str, ","))
    ELSE SearchPercentOfClass(text)

\* C12 as claimed: at the step after the last table row, the whole-document
\* search sets Shares_Owned (resp. Percent_of_Class) exactly when the field
\* is still None; a field the table scan populated keeps its value, and a
\* field neither the tables nor the search match stays None.
C12_FallbackOnlyWhenAbsent ==
    [][(pc = "scan_rows" /\ rowq = <<>>)
       => \A field \in {"Shares_Owned", "Percent_of_Class"} :
             /\ result[field] # None => result'[field] = result[field]
             /\ result[field] = None =>
                    result'[field] =
                        FallbackValue(GetText(HtmlContent(content)), field)]_vars

-----------------------------------------------------------------------------
(* download_and_extract_trades *)

\* Lines 356-365.
all_cols == form4_cols \cup form13_cols

IndexColumns == {"CIK", "Company Name", "Form Type", "Date Filed", "Filename"}

\* Line 402.
Form13Types == {"13G", "13G/A", "13D", "13D/A",
                "SC 13G", "SC 13G/A", "SC 13D", "SC 13D/A"}

IsForm4_prefix(form_type) == form_type \in {"4", "4/A"}

\* Line 396.
IsForm4(form_type) == form_type = "4"

\* The row the loop is at: df.iterrows() yields (idx, row).
CurrentRow == df.rows[idx + 1]

\* Line 382: row.get('Form Type', '').
FormTypeOf(row) ==
    IF "Form Type" \in df.columns THEN row["Form Type"] ELSE ""

MergeRow_keep_existing(row, record) ==
    [row EXCEPT !.cols =
        [k \in DOMAIN row.cols |->
            IF k \in DOMAIN record /\ k \in df.columns /\ record[k] # None
            THEN record[k]
            ELSE row.cols[k]]]

\* Lines 399-401 and 405-407: every key of the record that is a column of
\* the table is written into the row.
MergeRow(row, record) ==
    [row EXCEPT !.cols =
        [k \in DOMAIN row.cols |->
            IF k \in DOMAIN record /\ k \in df.columns THEN record[k]
            ELSE row.cols[k]]]

\* The documents the archive serves, by name.
Form4Response == XmlOnly(0, 10, [transactions |-> <<SaleTransaction>>])

Html13Response ==
    HtmlOnly(0, 50, <<>>,
        <<FreeText(<<CusipToken, " ", "1", "2", "3", "4", "5", "6">>),
          TableRow(<<<<"7", ".">>, <<SoleVotingLabel>>, <<"-", "0", "-">>>>),
          TableRow(<<<<"9", ".">>, <<AggregateLabel>>, <<"1", ",", "2">>>>),
          TableRow(<<<<"1", "1", ".">>, <<PercentLabel>>, <<"6", ".", "1", "%">>>>)>>)

Archive == [name \in {"form4", "html13"} |->
               IF name = "form4" THEN Form4Response ELSE Html13Response]

\* Lines 398 and 404: the parsers are functions of the document alone; their
\* records over the documents the archive serves.
Served == {Archive[name] : name \in DOMAIN Archive}

Form4Records == [c \in Served |-> parse_form4(c)]

Form13Records == [c \in Served |-> parse_13g_13d(c)]

\* Lines 409-413: a RequestException is recorded and the loop continues.
RecordDownloadError_abort ==
    /\ errors' = errors
    /\ pc' = "aborted"
    /\ idx' = idx

RecordDownloadError ==
    /\ errors' = Append(errors,
           [row |-> idx,
            text |-> <<"Error downloading ",
                       IF "Filename" \in df.columns THEN CurrentRow["Filename"]
                       ELSE "unknown",
                       ": ", "RequestException">>])
    /\ pc' = "loop"
    /\ idx' = idx + 1

\* Lines 414-418: any other Exception is recorded and the loop continues.
RecordProcessingError(e) ==
    /\ errors' = Append(errors,
           [row |-> idx,
            text |-> <<"Error processing row ", ToString(idx), ": ", e>>])
    /\ pc' = "loop"
    /\ idx' = idx + 1

\* Lines 376-386: the next row; row['Filename'] raises KeyError when the
\* table has no such column.
RowStart ==
    /\ pc = "loop"
    /\ idx < Len(df.rows)
    /\ IF "Filename" \notin df.columns
       THEN RecordProcessingError("'Filename'")
       ELSE pc' = "sleep" /\ UNCHANGED <<idx, errors>>
    /\ UNCHANGED <<content, parsed, raised, result, rowq, df, df0,
                   request_delay, calls, output>>

SleepThenGet_no_delay ==
    /\ calls' = calls
    /\ pc' = "get"
    /\ UNCHANGED <<idx, errors>>

\* Line 389, a delay that returns: the call is made and the request follows.
SleepThenGet ==
    /\ calls' = Append(calls, [op |-> "sleep", row |-> idx])
    /\ pc' = "get"
    /\ UNCHANGED <<idx, errors>>

\* Line 389: time.sleep(request_delay), which raises ValueError for a
\* negative delay.
Sleep ==
    /\ pc = "sleep"
    /\ IF request_delay < 0
       THEN RecordProcessingError("sleep length must be non-negative")
            /\ calls' = calls
       ELSE SleepThenGet
    /\ UNCHANGED <<content, parsed, raised, result, rowq, df, df0,
                   request_delay, output>>

\* Lines 390-393: requests.get and raise_for_status; the archive answers
\* with a document or the request fails (connection, timeout, status).
Get ==
    /\ pc = "get"
    /\ \E response \in DOMAIN Archive \cup {"RequestException"} :
          /\ calls' = Append(calls, [op |-> "get", row |-> idx,
                                     response |-> response])
          /\ IF response = "RequestException"
             THEN RecordDownloadError /\ content' = content
             ELSE /\ content' = Archive[response]
                  /\ pc' = "dispatch"
                  /\ UNCHANGED <<idx, errors>>
    /\ UNCHANGED <<parsed, raised, result, rowq, df, df0, request_delay, output>>

\* Lines 395-407: parse by form type and merge the record into the row.  An
\* exception leaving a parser would be recorded by the handler of line 414.
Dispatch ==
    /\ pc = "dispatch"
    /\ LET form_type == FormTypeOf(CurrentRow)
           form4 == Form4Records[content]
           form13 == Form13Records[content]
       IN  IF IsForm4(form_type)
           THEN /\ parsed' = form4.result
                /\ IF form4.raised
                   THEN RecordProcessingError("parse_form4") /\ df' = df
                   ELSE /\ df' = [df EXCEPT !.rows[idx + 1] =
                                     MergeRow(CurrentRow, form4.result)]
                        /\ idx' = idx + 1
                        /\ pc' = "loop"
                        /\ errors' = errors
           ELSE IF form_type \in Form13Types
           THEN /\ parsed' = form13
                /\ df' = [df EXCEPT !.rows[idx + 1] = MergeRow(CurrentRow, form13)]
                /\ idx' = idx + 1
                /\ pc' = "loop"
                /\ errors' = errors
           ELSE /\ idx' = idx + 1
                /\ pc' = "loop"
                /\ UNCHANGED <<parsed, df, errors>>
    /\ UNCHANGED <<content, raised, result, rowq, df0, request_delay, calls, output>>

\* Lines 420-427: the table is written in full and the counts are reported.
Write ==
    /\ pc = "loop"
    /\ idx = Len(df.rows)
    /\ output' = [file |-> df,
                  processed |-> Len(df.rows) - Len(errors),
                  total |-> Len(df.rows),
                  errors |-> Len(errors)]
    /\ pc' = "done"
    /\ UNCHANGED <<content, parsed, raised, result, rowq, df, df0, idx,
                   errors, request_delay, calls>>

Next == RowStart \/ Sleep \/ Get \/ Dispatch \/ Write

-----------------------------------------------------------------------------
(* The batches download_and_extract_trades is run on *)

MaxDocs == 3

\* Form types of the rows: one of each dispatch class ("4", a 13D/13G-class
\* type, any other type) and "4/A", which is close to "4" but not dispatched.
BatchFormTypes == {"4", "SC 13G", "8-K", "4/A"}

FilenameOf(i) == "edgar/data/" \o ToString(i) \o ".txt"

\* A row as read from the CSV: every extraction column holds `pre`, None in
\* a first run and a value of an earlier run otherwise.
LoadedRow(i, form_type, pre) ==
    [Filename |-> FilenameOf(i), cols |-> [k \in all_cols |-> pre]]
        @@ ("Form Type" :> form_type)

LoadedTable(types, pre, columns) ==
    [columns |-> columns,
     rows |-> [i \in 1..Len(types) |-> LoadedRow(i - 1, types[i], pre)]]

\* Tables with both index columns and, after lines 355-368, every
\* extraction column; tables of a first run that lack one of the two.
Batches ==
    {LoadedTable(types, pre, IndexColumns \cup all_cols) :
        types \in SeqsUpTo(BatchFormTypes, MaxDocs),
        pre \in {None, Str(<<"old">>)}}
    \cup
    {LoadedTable(types, None, columns) :
        types \in SeqsUpTo({"4", "8-K"}, MaxDocs),
        columns \in {(IndexColumns \cup all_cols) \ {"Filename"},
                     IndexColumns \ {"Form Type"}}}

\* The state at line 374.  request_delay is in hundredths of a second; a
\* delay of 0 never reaches the loop (line 371 divides by it).
Init ==
    /\ pc = "loop"
    /\ df \in Batches
    /\ df0 = df
    /\ request_delay \in {11, -11}
    /\ (request_delay < 0 => df.columns = IndexColumns \cup all_cols)
    /\ idx = 0
    /\ errors = <<>>
    /\ calls = <<>>
    /\ output = None
    /\ content = None
    /\ parsed = None
    /\ raised = FALSE
    /\ result = None
    /\ rowq = <<>>

Spec == Init /\ [][Next]_vars

\* The loop is a sequential program: it takes its next step whenever it has
\* one.
FairSpec == Spec /\ WF_vars(Next)

-----------------------------------------------------------------------------
(* Properties of download_and_extract_trades (checked under Spec, FairSpec) *)

\* The requests made for the row with index i, as positions of the history.
GetsOf(i) == {k \in 1..Len(calls) : calls[k].op = "get" /\ calls[k].row = i}

\* Whether the row with index i was retrieved.
Retrieved(i) ==
    \E k \in GetsOf(i) : calls[k].response # "RequestException"

\* The document retrieved for the row with index i.
RetrievedDocument(i) ==
    Archive[calls[CHOOSE k \in GetsOf(i) :
                      calls[k].response # "RequestException"].response]

RowIndexes == 0..(Len(df.rows) - 1)

\* The row with index i of the loaded table after the extraction from
\* document doc: a "4" row takes the nine transaction fields, a 13D/13G-class
\* row the nine ownership fields, any other row nothing.
ExtractedRow(i, doc) ==
    LET row == df0.rows[i + 1]
        form_type == IF "Form Type" \in df0.columns THEN row["Form Type"] ELSE ""
    IN  IF form_type = "4"
        THEN [row EXCEPT !.cols =
                 [k \in all_cols |-> IF k \in form4_cols
                                     THEN parse_form4(doc).result[k]
                                     ELSE row.cols[k]]]
        ELSE IF form_type \in {"13G", "13G/A", "13D", "13D/A",
                               "SC 13G", "SC 13G/A", "SC 13D", "SC 13D/A"}
        THEN [row EXCEPT !.cols =
                 [k \in all_cols |-> IF k \in form13_cols
                                     THEN parse_13g_13d(doc)[k]
                                     ELSE row.cols[k]]]
        ELSE row

\* The state a completed run ends in, whichever documents failed.
BatchIsolated ==
    /\ idx = Len(df.rows)
    /\ output # None
    /\ output.file = df
    /\ Len(df.rows) = Len(df0.rows)
    /\ \A i \in RowIndexes :
          /\ ("Filename" \in df.columns /\ request_delay >= 0)
                 => Cardinality(GetsOf(i)) = 1
          /\ Retrieved(i) =>
                 /\ df.rows[i + 1] = ExtractedRow(i, RetrievedDocument(i))
                 /\ \A e \in 1..Len(errors) : errors[e].row # i
          /\ ~Retrieved(i) =>
                 /\ df.rows[i + 1] = df0.rows[i + 1]
                 /\ Cardinality({e \in 1..Len(errors) : errors[e].row = i}) = 1
    /\ Len(errors) = Cardinality({i \in RowIndexes : ~Retrieved(i)})

\* C1: a failure while retrieving or processing one document never aborts
\* the batch.  Every run reaches the final write, and there every document
\* that did not fail was fetched and extracted, every failing document's row
\* is as it was loaded, and the number of recorded errors is the number of
\* failing documents.
C1_FailureIsolated ==
    /\ [](pc = "done" => BatchIsolated)
    /\ [](pc \in {"loop", "sleep", "get", "dispatch", "done"})
    /\ <>(pc = "done")

\* C1 witness: a completed run over three 13D/13G-class rows with earlier
\* values, in which the second retrieval failed and the first and the third
\* were extracted.
C1_Witness ==
    /\ pc = "done"
    /\ Len(df.rows) = 3
    /\ \A i \in 1..3 : df0.rows[i]["Form Type"] = "SC 13G"
    /\ df0.rows[2].cols["CUSIP"] = Str(<<"old">>)
    /\ Retrieved(0) /\ ~Retrieved(1) /\ Retrieved(2)
    /\ Cardinality(GetsOf(1)) = 1
    /\ RetrievedDocument(0) = Html13Response
    /\ RetrievedDocument(2) = Html13Response
    /\ df.rows[1].cols["Shares_Owned"] = Str(<<"1", "2">>)
    /\ df.rows[3].cols["Shares_Owned"] = Str(<<"1", "2">>)
    /\ df.rows[2] = df0.rows[2]
    /\ Len(errors) = 1
    /\ output.file = df

\* C7: the dispatch of a document whose form type is neither "4" nor one of
\* the eight 13D/13G-class types invokes no extractor, leaves the table as it
\* is and records no error.
C7_OtherFormTypeNoOp ==
    [][(/\ pc = "dispatch"
        /\ FormTypeOf(CurrentRow) \notin
               {"4", "13G", "13G/A", "13D", "13D/A",
                "SC 13G", "SC 13G/A", "SC 13D", "SC 13D/A"})
       => /\ df' = df
          /\ errors' = errors
          /\ parsed' = parsed]_vars

\* C7 witness: a "4/A" row holding earlier values was retrieved and
\* dispatched; the table is as loaded and no error is recorded.
C7_Witness ==
    /\ pc = "loop"
    /\ idx = 1
    /\ "Form Type" \in df.columns
    /\ df.rows[1]["Form Type"] = "4/A"
    /\ Retrieved(0)
    /\ RetrievedDocument(0) = Form4Response
    /\ df.rows[1].cols["Transaction_Code"] = Str(<<"old">>)
    /\ df = df0
    /\ errors = <<>>

\* C9: the fetch is issued at most once per row, and every fetch comes
\* immediately after the rate-limit delay of the same row.
C9_FetchOncePerRowAfterDelay ==
    /\ \A i \in RowIndexes : Cardinality(GetsOf(i)) <= 1
    /\ \A k \in 1..Len(calls) :
          calls[k].op = "get" =>
              /\ k > 1
              /\ calls[k - 1] = [op |-> "sleep", row |-> calls[k].row]

\* C9 witness: a completed run of three rows whose first fetch failed; the
\* history is delay, fetch, delay, fetch, delay, fetch.
C9_Witness ==
    /\ pc = "done"
    /\ Len(df.rows) = 3
    /\ Len(calls) = 6
    /\ calls[2].op = "get"
    /\ calls[2].response = "RequestException"
    /\ calls[3].op = "sleep"
    /\ calls[4].op = "get"
    /\ calls[6].op = "get"
    /\ Len(errors) = 1

\* Whether a recorded message includes a text.
Includes(message, text) == \E k \in 1..Len(message) : message[k] = text

\* C10 as claimed: every recorded error message, for a retrieval failure or
\* for any other exception, includes the Filename of the document it is
\* about, and the reported success count is the number of documents minus
\* the number of recorded errors.
C10_ErrorsNameTheDocument ==
    /\ "Filename" \in df.columns =>
           \A e \in 1..Len(errors) :
               Includes(errors[e].text, df.rows[errors[e].row + 1]["Filename"])
    /\ pc = "done" => output.processed = Len(df.rows) - Len(errors)

\* Whether the step leaves alone every row but the current one, and the
\* index columns and the columns outside `written` of the current one.
FrameOutside(written) ==
    /\ df'.columns = df.columns
    /\ Len(df'.rows) = Len(df.rows)
    /\ \A j \in 1..Len(df.rows) : j # idx + 1 => df'.rows[j] = df.rows[j]
    /\ df'.rows[idx + 1]["Filename"] = CurrentRow["Filename"]
    /\ df'.rows[idx + 1]["Form Type"] = CurrentRow["Form Type"]
    /\ \A k \in all_cols \ written :
           df'.rows[idx + 1].cols[k] = CurrentRow.cols[k]

\* C14: the dispatch of a "4" row writes the extracted record over all nine
\* transaction columns of that row, None over an earlier value included, and
\* changes neither the ownership-only columns of the row nor any other row;
\* the dispatch of a 13D/13G-class row does the same with the nine ownership
\* columns.
C14_MergeFrame ==
    [][(pc = "dispatch" /\ "Form Type" \in df.columns)
       => LET form_type == CurrentRow["Form Type"]
          IN  /\ form_type = "4" =>
                    /\ Cardinality(form4_cols) = 9
                    /\ \A k \in form4_cols :
                           df'.rows[idx + 1].cols[k] =
                               parse_form4(content).result[k]
                    /\ FrameOutside(form4_cols)
                    /\ errors' = errors
              /\ form_type \in {"13G", "13G/A", "13D", "13D/A", "SC 13G",
                                "SC 13G/A", "SC 13D", "SC 13D/A"} =>
                    /\ Cardinality(form13_cols) = 9
                    /\ \A k \in form13_cols :
                           df'.rows[idx + 1].cols[k] = parse_13g_13d(content)[k]
                    /\ FrameOutside(form13_cols)
                    /\ errors' = errors]_vars

\* C14 witness: the first of two "4" rows holding earlier values was
\* dispatched on a document without a Form 4 fragment: its nine transaction
\* columns, Security_Name included, are None, its ownership-only columns and
\* the second row are as loaded.
C14_Witness ==
    /\ pc = "loop"
    /\ idx = 1
    /\ Len(df.rows) >= 2
    /\ "Form Type" \in df.columns
    /\ df0.rows[1]["Form Type"] = "4"
    /\ df0.rows[1].cols["Security_Name"] = Str(<<"old">>)
    /\ Retrieved(0)
    /\ RetrievedDocument(0) = Html13Response
    /\ \A k \in form4_cols : df.rows[1].cols[k] = None
    /\ \A k \in all_cols \ form4_cols : df.rows[1].cols[k] = Str(<<"old">>)
    /\ df.rows[2] = df0.rows[2]
    /\ errors = <<>>

====
